---- MODULE Spec2Model ----
(***************************************************************************)
(* Model of app.py: a Flask process that loads a Keras model at import     *)
(* time and serves GET / (static page) and POST /predict (classification). *)
(*                                                                         *)
(* Numbers.  A score is an integer numerator over ScoreDen, so 0.5 is      *)
(* HalfSteps / ScoreDen; NaN is a separate value with IEEE comparison      *)
(* rules.  None in a shape is the dimension 0.                             *)
(***************************************************************************)
EXTENDS Integers, Sequences, FiniteSets, TLC

\* ---------------------------------------------------------------- bounds
HalfSteps == 2
MaxDim == 3
MaxImg == 2
NThreads == 2

\* ------------------------------------------------------- program constants
DefaultSize == 299
Channels == 3

ScoreDen == 2 * HalfSteps
NaN == 0 - 1000
NoneDim == 0
One == ScoreDen

model_path == "best_model_xception.keras"
ERR_NO_MODEL == "model not loaded"
ERR_NO_FILE == "no valid file sent"
ERR_NO_NAME == "no file selected"
DOG == "dog"
CAT == "cat"

\* ------------------------------------------------------------ float rules
\* a > b on floats: false as soon as one side is NaN
FloatGt(a, b) == a # NaN /\ b # NaN /\ a > b

\* a - b on floats: NaN as soon as one side is NaN
FloatSub(a, b) == IF a = NaN \/ b = NaN THEN NaN ELSE a - b

\* ------------------------------------------------------------ the artifact
\* Scores the network can put out: a little outside [0, 1] too, and NaN.
Scores == (0 - 1 .. ScoreDen + 1) \cup {NaN}

DeclDims == {NoneDim} \cup (2 .. MaxDim)

\* What load_model yields: the declared input shape (batch, h, w, channels)
\* and the weights, which fix the score of every picture.
Models == [input_shape : {<<NoneDim, h, w, Channels>> : h \in DeclDims, w \in DeclDims},
           weights : {"plain", "flipped"}]

NoModel == [input_shape |-> <<>>, weights |-> "none"]

\* ------------------------------------------------------------ the requests
\* An upload that decodes: its mode, its size and what it shows (named by
\* the score the plain weights give it).  The mode only decides the number
\* of bands, so grey pictures come with one content.
Pictures == {p \in [kind : {"image"}, mode : {"RGB", "L"}, w : 1 .. MaxImg,
                    h : 1 .. MaxImg, content : Scores] :
               p.mode = "L" => p.content = 0}

Garbage == [kind |-> "garbage", mode |-> "", w |-> 0, h |-> 0, content |-> 0]

Uploads == Pictures \cup {Garbage}

Faults == {"none", "read", "predict", "float"}

FileParts == [filename : {"", "pet.jpg"}, data : Uploads]

\* request.files is a mapping from part name to uploaded file
FilesMaps == {<<>>} \cup [{"file"} -> FileParts]
                 \cup {[n \in {"image"} |-> [filename |-> "pet.jpg", data |-> Garbage]]}

\* A fault is a library call that raises on its own (I/O error, out of
\* memory, odd output); it only matters once the try block is entered, and
\* the picture plays no part in it.  An empty filename ends the handler
\* before the upload is looked at, so one picture stands for all there.
Plain == [kind |-> "image", mode |-> "RGB", w |-> 1, h |-> 1, content |-> 0]

Requests == {r \in [files : FilesMaps, fault : Faults] :
               /\ r.fault # "none" =>
                     /\ "file" \in DOMAIN r.files
                     /\ r.files["file"].filename # ""
                     /\ r.files["file"].data = Plain
               /\ ("file" \in DOMAIN r.files /\ r.files["file"].filename = "") =>
                     r.files["file"].data \in {Garbage, Plain}}

\* ----------------------------------------------------------------- state
VARIABLES pc, model, input_shape, loads, req, resp, trace, threads

vars == <<pc, model, input_shape, loads, req, resp, trace, threads>>

\* --------------------------------------------------------- library calls
\* Image.open(io.BytesIO(img_bytes)): the decoded picture; garbage bytes raise
CanOpen(data) == data.kind = "image"

Image_open(data) == [mode |-> data.mode, w |-> data.w, h |-> data.h, content |-> data.content]

\* .convert('RGB')
convert_RGB(img) == [img EXCEPT !.mode = "RGB"]

\* PIL rejects a size holding None
CanResize(size) == size[1] # NoneDim /\ size[2] # NoneDim

\* img.resize(size): PIL reads size as (width, height)
resize(img, size) == [img EXCEPT !.w = size[1], !.h = size[2]]

BandsOf(mode) == IF mode = "RGB" THEN 3 ELSE 1

\* image.img_to_array(img): a (height, width, channels) array of 0..255 values
img_to_array(img) == [shape |-> <<img.h, img.w, BandsOf(img.mode)>>, scale |-> "0..255", content |-> img.content]

\* np.expand_dims(img_array, axis=0)
expand_dims(arr) == [arr EXCEPT !.shape = <<1>> \o arr.shape]

\* preprocess_input(img_array): Xception scaling of the values to -1..1
preprocess_input(arr) == [arr EXCEPT !.scale = "-1..1"]

\* Keras refuses an array whose non-batch dimensions differ from the declared
\* ones (None matches anything)
Compatible(m, arr) ==
    /\ Len(arr.shape) = Len(m.input_shape)
    /\ \A i \in 2 .. Len(m.input_shape) :
          m.input_shape[i] = NoneDim \/ m.input_shape[i] = arr.shape[i]

\* model.predict(img_array): a 1 x 1 array, a function of weights and picture
model_predict(m, arr) ==
    <<<<IF m.weights = "plain" THEN arr.content ELSE FloatSub(One, arr.content)>>>>

\* --------------------------------------------------------------- startup
\* line 17: the (height, width) the model declares, else the default
InputShapeOf(m) ==
    IF m.input_shape[2] # NoneDim
    THEN <<m.input_shape[2], m.input_shape[3]>>
    ELSE <<DefaultSize, DefaultSize>>

\* --------------------------------------------------------- POST /predict
\* What a run of the handler leaves behind: the response, and for the
\* properties the library calls it made, the shape handed to model.predict,
\* the local score and the exception caught.
Outcome(status, body, calls, fed, score, raised) ==
    [status |-> status, body |-> body, calls |-> calls, fed |-> fed,
     score |-> score, raised |-> raised]

\* jsonify_error with the status code left out, so Flask answers 200
jsonify_error_200(status, text, calls, fed, raised) ==
    Outcome(200, [error |-> text], calls, fed, <<>>, raised)

\* jsonify({'error': text}), status
jsonify_error(status, text, calls, fed, raised) ==
    Outcome(status, [error |-> text], calls, fed, <<>>, raised)

Exception(type, msg) == [type |-> type, msg |-> msg]

\* str(e)
str(e) == e.msg

\* Classify with the threshold test written >=
Classify_ge(score) ==
    IF score # NaN /\ 2 * score >= ScoreDen
    THEN [prediction |-> DOG, confidence |-> score]
    ELSE [prediction |-> CAT, confidence |-> FloatSub(One, score)]

\* Classify reporting the raw score as the confidence of either label
Classify_rawconf(score) ==
    IF FloatGt(2 * score, ScoreDen)
    THEN [prediction |-> DOG, confidence |-> score]
    ELSE [prediction |-> CAT, confidence |-> score]

\* lines 130-135: the label and its confidence
Classify(score) ==
    IF FloatGt(2 * score, ScoreDen)
    THEN [prediction |-> DOG, confidence |-> score]
    ELSE [prediction |-> CAT, confidence |-> FloatSub(One, score)]

Raised(e, calls, fed) == [raised |-> <<e>>, calls |-> calls, fed |-> fed, score |-> <<>>]

\* lines 115-127: the calls of the try block up to the score, or the exception
\* that ends them
try_body(m, shape, file, fault) ==
    IF fault = "read"
    THEN Raised(Exception("OSError", "read failed"), <<"read">>, <<>>)
    ELSE IF ~CanOpen(file.data)
    THEN Raised(Exception("UnidentifiedImageError", "cannot identify image file"),
                <<"read", "open">>, <<>>)
    ELSE IF ~CanResize(shape)
    THEN Raised(Exception("TypeError", "bad size"),
                <<"read", "open", "convert", "resize">>, <<>>)
    ELSE
      LET img == resize(convert_RGB(Image_open(file.data)), shape)
          img_array == preprocess_input(expand_dims(img_to_array(img)))
          calls == <<"read", "open", "convert", "resize", "img_to_array",
                     "expand_dims", "preprocess_input", "predict">>
      IN  IF ~Compatible(m, img_array)
          THEN Raised(Exception("ValueError", "incompatible shape"), calls, img_array.shape)
          ELSE IF fault = "predict"
          THEN Raised(Exception("ResourceExhaustedError", "predict failed"),
                      calls, img_array.shape)
          ELSE IF fault = "float"
          THEN Raised(Exception("TypeError", "bad output"),
                      calls \o <<"float">>, img_array.shape)
          ELSE
            LET preds == model_predict(m, img_array)
            IN  [raised |-> <<>>, calls |-> calls \o <<"float">>,
                 fed |-> img_array.shape, score |-> <<preds[1][1]>>]

\* the try statement catching ValueError only: anything else reaches Flask,
\* which answers with its own HTML error page
try_except_narrow(m, shape, file, fault) ==
    LET t == try_body(m, shape, file, fault)
    IN  IF t.raised # <<>>
        THEN IF t.raised[1].type = "ValueError"
             THEN jsonify_error(500, str(t.raised[1]), t.calls, t.fed, t.raised)
             ELSE Outcome(500, [html |-> "Internal Server Error"], t.calls, t.fed,
                          <<>>, t.raised)
        ELSE Outcome(200, Classify(t.score[1]), t.calls, t.fed, t.score, <<>>)

\* lines 114-142: the try statement
try_except(m, shape, file, fault) ==
    LET t == try_body(m, shape, file, fault)
    IN  IF t.raised # <<>>
        THEN jsonify_error(500, str(t.raised[1]), t.calls, t.fed, t.raised)
        ELSE Outcome(200, Classify(t.score[1]), t.calls, t.fed, t.score, <<>>)

\* the handler validating the request before it looks at the model
predict_late_model_check(m, shape, r) ==
    IF "file" \notin DOMAIN r.files
    THEN jsonify_error(400, ERR_NO_FILE, <<>>, <<>>, <<>>)
    ELSE IF r.files["file"].filename = ""
    THEN jsonify_error(400, ERR_NO_NAME, <<>>, <<>>, <<>>)
    ELSE IF m = NoModel
    THEN jsonify_error(500, ERR_NO_MODEL, <<>>, <<>>, <<>>)
    ELSE try_except(m, shape, r.files["file"], r.fault)

\* the handler without the empty-filename check
predict_no_name_check(m, shape, r) ==
    IF m = NoModel
    THEN jsonify_error(500, ERR_NO_MODEL, <<>>, <<>>, <<>>)
    ELSE IF "file" \notin DOMAIN r.files
    THEN jsonify_error(400, ERR_NO_FILE, <<>>, <<>>, <<>>)
    ELSE try_except(m, shape, r.files["file"], r.fault)

\* lines 102-142: the handler, as a function of the globals and the request
predict(m, shape, r) ==
    IF m = NoModel
    THEN jsonify_error(500, ERR_NO_MODEL, <<>>, <<>>, <<>>)
    ELSE IF "file" \notin DOMAIN r.files
    THEN jsonify_error(400, ERR_NO_FILE, <<>>, <<>>, <<>>)
    ELSE IF r.files["file"].filename = ""
    THEN jsonify_error(400, ERR_NO_NAME, <<>>, <<>>, <<>>)
    ELSE try_except(m, shape, r.files["file"], r.fault)

\* ------------------------------------------------------------------ GET /
\* the template with a Jinja expression showing whether the model is loaded
HTML_TEMPLATE_status ==
    <<[lit |-> "head"], [lit |-> "style"], [var |-> "model"], [lit |-> "form"],
      [lit |-> "script"]>>

\* The template: literal chunks only, no Jinja expression or statement
HTML_TEMPLATE == <<[lit |-> "head"], [lit |-> "style"], [lit |-> "form"], [lit |-> "script"]>>

\* render_template_string: literals are copied, expressions are looked up
render_template_string(tpl, ctx) ==
    [i \in 1 .. Len(tpl) |->
        IF "lit" \in DOMAIN tpl[i] THEN tpl[i].lit ELSE ctx[tpl[i].var]]

\* what Flask puts in every template context
TemplateContext == [path |-> "/", model |-> IF model = NoModel THEN "absent" ELSE "loaded"]

index == [status |-> 200, body |-> render_template_string(HTML_TEMPLATE, TemplateContext)]

\* ---------------------------------------------------------------- actions
NoReq == [files |-> <<>>, fault |-> "none"]
NoResp == [route |-> "", status |-> 0, body |-> <<>>]
NoTrace == [calls |-> <<>>, fed |-> <<>>, score |-> <<>>, raised |-> <<>>]
Threads == 1 .. NThreads
IdleThread == [pc |-> "idle", route |-> "", r |-> NoReq, img_array |-> [shape |-> <<>>, scale |-> "", content |-> 0],
               preds |-> <<>>, score |-> <<>>, exc |-> <<>>, out |-> [status |-> 0, body |-> <<>>]]

Init ==
    /\ pc = "boot"
    /\ model = NoModel
    /\ input_shape = <<>>
    /\ loads = 0
    /\ req = NoReq
    /\ resp = NoResp
    /\ trace = NoTrace
    /\ threads = [t \in Threads |-> IdleThread]

\* lines 13-22 with the artifact on disk
StartupLoaded ==
    /\ pc = "boot"
    /\ \E m \in Models :
          /\ model' = m
          /\ input_shape' = InputShapeOf(m)
    /\ loads' = loads + 1
    /\ pc' = "serving"
    /\ UNCHANGED <<req, resp, trace, threads>>

\* lines 13-22 without the artifact
StartupAbsent ==
    /\ pc = "boot"
    /\ model' = NoModel
    /\ input_shape' = <<DefaultSize, DefaultSize>>
    /\ pc' = "serving"
    /\ UNCHANGED <<loads, req, resp, trace, threads>>

Index ==
    /\ pc = "serving"
    /\ req' = NoReq
    /\ resp' = [route |-> "/", status |-> index.status, body |-> index.body]
    /\ trace' = NoTrace
    /\ UNCHANGED <<pc, model, input_shape, loads, threads>>

\* the handler loading the model on first use when startup found none
Predict_lazy_load ==
    /\ pc = "serving"
    /\ \E r \in Requests, m \in Models :
          LET now == IF model = NoModel THEN m ELSE model
              shape == IF model = NoModel THEN InputShapeOf(m) ELSE input_shape
              out == predict(now, shape, r)
          IN  /\ model' = now
              /\ input_shape' = shape
              /\ req' = r
              /\ resp' = [route |-> "/predict", status |-> out.status, body |-> out.body]
              /\ trace' = [calls |-> out.calls, fed |-> out.fed, score |-> out.score,
                           raised |-> out.raised]
    /\ loads' = IF model = NoModel THEN loads + 1 ELSE loads
    /\ UNCHANGED <<pc, threads>>

\* POST /predict, handled from start to end
Predict ==
    /\ pc = "serving"
    /\ \E r \in Requests :
          LET out == predict(model, input_shape, r)
          IN  /\ req' = r
              /\ resp' = [route |-> "/predict", status |-> out.status, body |-> out.body]
              /\ trace' = [calls |-> out.calls, fed |-> out.fed, score |-> out.score,
                            raised |-> out.raised]
    /\ UNCHANGED <<pc, model, input_shape, loads, threads>>

Next == StartupLoaded \/ StartupAbsent \/ Index \/ Predict

Spec == Init /\ [][Next]_vars

\* ------------------------------------------- requests handled in threads
\* Flask's server hands every request to a thread of its own; the locals of
\* predict() live in that thread, model and input_shape are module globals.
ConcUploads == {Garbage, Plain, [Plain EXCEPT !.content = One]}

ConcRequests == {r \in Requests :
                   /\ r.fault = "none"
                   /\ \/ r.files = <<>>
                      \/ /\ "file" \in DOMAIN r.files
                         /\ r.files["file"].filename # ""
                         /\ r.files["file"].data \in ConcUploads}

NoArr == [shape |-> <<>>, scale |-> "", content |-> 0]
NoOut == [status |-> 0, body |-> <<>>]

Locals(p, route, r) ==
    [pc |-> p, route |-> route, r |-> r, img_array |-> NoArr, preds |-> <<>>,
     score |-> <<>>, exc |-> <<>>, out |-> NoOut]

Respond(t, status, body) ==
    threads' = [threads EXCEPT ![t].pc = "done", ![t].out = [status |-> status, body |-> body]]

Goto(t, p) == threads' = [threads EXCEPT ![t].pc = p]

Frame == UNCHANGED <<pc, model, input_shape, loads, req, resp, trace>>

\* the score read at line 130 is some thread's: what a module-level score
\* variable would give
ScoreShared(t) == threads[CHOOSE u \in Threads : threads[u].score # <<>>].score[1]

\* line 130: the score read is the local of the thread itself
ScoreLocal(t) == threads[t].score[1]

\* a request arrives and is given to an idle thread
Accept(t) ==
    /\ pc = "serving"
    /\ threads[t].pc = "idle"
    /\ \/ threads' = [threads EXCEPT ![t] = Locals("l100", "/", NoReq)]
       \/ \E r \in ConcRequests :
             threads' = [threads EXCEPT ![t] = Locals("l104", "/predict", r)]
    /\ Frame

\* line 100
T_index(t) ==
    /\ threads[t].pc = "l100"
    /\ Respond(t, index.status, index.body)
    /\ Frame

\* lines 104-105
T_check_model(t) ==
    /\ threads[t].pc = "l104"
    /\ IF model = NoModel
       THEN Respond(t, 500, [error |-> ERR_NO_MODEL])
       ELSE Goto(t, "l107")
    /\ Frame

\* lines 107-112
T_check_file(t) ==
    /\ threads[t].pc = "l107"
    /\ IF "file" \notin DOMAIN threads[t].r.files
       THEN Respond(t, 400, [error |-> ERR_NO_FILE])
       ELSE IF threads[t].r.files["file"].filename = ""
       THEN Respond(t, 400, [error |-> ERR_NO_NAME])
       ELSE Goto(t, "l115")
    /\ Frame

\* lines 115-123
T_decode(t) ==
    /\ threads[t].pc = "l115"
    /\ LET file == threads[t].r.files["file"]
           raise(e) == threads' = [threads EXCEPT ![t].pc = "l142", ![t].exc = <<e>>]
       IN  IF threads[t].r.fault = "read"
           THEN raise(Exception("OSError", "read failed"))
           ELSE IF ~CanOpen(file.data)
           THEN raise(Exception("UnidentifiedImageError", "cannot identify image file"))
           ELSE IF ~CanResize(input_shape)
           THEN raise(Exception("TypeError", "bad size"))
           ELSE threads' = [threads EXCEPT
                   ![t].pc = "l126",
                   ![t].img_array = preprocess_input(expand_dims(img_to_array(
                        resize(convert_RGB(Image_open(file.data)), input_shape))))]
    /\ Frame

\* line 126
T_predict(t) ==
    /\ threads[t].pc = "l126"
    /\ LET raise(e) == threads' = [threads EXCEPT ![t].pc = "l142", ![t].exc = <<e>>]
       IN  IF ~Compatible(model, threads[t].img_array)
           THEN raise(Exception("ValueError", "incompatible shape"))
           ELSE IF threads[t].r.fault = "predict"
           THEN raise(Exception("ResourceExhaustedError", "predict failed"))
           ELSE threads' = [threads EXCEPT
                   ![t].pc = "l127",
                   ![t].preds = model_predict(model, threads[t].img_array)]
    /\ Frame

\* line 127
T_score(t) ==
    /\ threads[t].pc = "l127"
    /\ IF threads[t].r.fault = "float"
       THEN threads' = [threads EXCEPT ![t].pc = "l142",
                           ![t].exc = <<Exception("TypeError", "bad output")>>]
       ELSE threads' = [threads EXCEPT ![t].pc = "l130",
                           ![t].score = <<threads[t].preds[1][1]>>]
    /\ Frame

\* lines 130-140
T_return(t) ==
    /\ threads[t].pc = "l130"
    /\ Respond(t, 200, Classify(ScoreLocal(t)))
    /\ Frame

\* lines 141-142
T_except(t) ==
    /\ threads[t].pc = "l142"
    /\ Respond(t, 500, [error |-> str(threads[t].exc[1])])
    /\ Frame

\* the response is sent and the thread's locals are gone
T_finish(t) ==
    /\ threads[t].pc = "done"
    /\ threads' = [threads EXCEPT ![t] = IdleThread]
    /\ Frame

NextConc ==
    \/ StartupLoaded
    \/ StartupAbsent
    \/ \E t \in Threads : Accept(t)
    \/ \E t \in Threads : T_index(t)
    \/ \E t \in Threads : T_check_model(t)
    \/ \E t \in Threads : T_check_file(t)
    \/ \E t \in Threads : T_decode(t)
    \/ \E t \in Threads : T_predict(t)
    \/ \E t \in Threads : T_score(t)
    \/ \E t \in Threads : T_return(t)
    \/ \E t \in Threads : T_except(t)
    \/ \E t \in Threads : T_finish(t)

SpecConc == Init /\ [][NextConc]_vars

\* ------------------------------------------------------------ properties
IsPredictResp == resp.route = "/predict"
HasFile == "file" \in DOMAIN req.files
Half == HalfSteps
StaticPage == <<"head", "style", "form", "script">>

\* C1: a successful POST /predict answers the dog label exactly when the
\* model's score is above 0.5 and the cat label otherwise (0.5 itself is cat).
C1_LabelByThreshold ==
    IsPredictResp /\ resp.status = 200 =>
        /\ trace.score # <<>>
        /\ resp.body.prediction \in {DOG, CAT}
        /\ resp.body.prediction = DOG <=>
              (trace.score[1] # NaN /\ 2 * trace.score[1] > ScoreDen)
        /\ trace.score[1] = Half => resp.body.prediction = CAT

C1_Witness ==
    IsPredictResp /\ resp.status = 200 /\ trace.score = <<Half>>
        /\ resp.body.prediction = CAT

\* C2: the confidence of a successful answer is the score for dog and
\* 1 - score for cat; for a score in [0, 1] it lies in [0.5, 1], and it is
\* above 0.5 whenever the label is dog.
C2_Confidence ==
    IsPredictResp /\ resp.status = 200 =>
        LET score == trace.score[1]
            conf == resp.body.confidence
        IN  /\ resp.body.prediction = DOG => conf = score /\ conf > Half
            /\ resp.body.prediction = CAT =>
                  conf = (IF score = NaN THEN NaN ELSE One - score)
            /\ (score # NaN /\ 0 <= score /\ score <= One) =>
                  (Half <= conf /\ conf <= One)

C2_Witness ==
    IsPredictResp /\ resp.status = 200 /\ trace.score = <<1>>
        /\ resp.body.prediction = CAT /\ resp.body.confidence = One - 1

\* C3: without the artifact the process serves with no model, and every
\* POST /predict, whatever it carries, is answered 500 with only the
\* model-not-loaded error and without any decoding or inference call.
C3_NoModel ==
    /\ (pc = "serving" /\ loads = 0) => model = NoModel
    /\ (IsPredictResp /\ model = NoModel) =>
          /\ resp.status = 500
          /\ resp.body = [error |-> ERR_NO_MODEL]
          /\ trace.calls = <<>>

C3_Witness ==
    IsPredictResp /\ model = NoModel /\ ~HasFile /\ resp.status = 500

\* C4: GET / answers the same static page in every state, model loaded or
\* not and whatever was asked before, and changes no server state.
C4_StaticIndex ==
    [][resp'.route = "/" =>
          /\ resp'.status = 200
          /\ resp'.body = StaticPage
          /\ model' = model /\ input_shape' = input_shape
          /\ loads' = loads /\ pc' = pc]_vars

C4_Witness ==
    resp.route = "/" /\ resp.body = StaticPage /\ model = NoModel

\* C5: the model is loaded at most once, at startup and before any request
\* is answered; once serving, no request changes model or input_shape.
C5_LoadOnce ==
    [][/\ loads' <= 1
       /\ resp' # NoResp => pc = "serving"
       /\ pc = "serving" =>
             model' = model /\ input_shape' = input_shape /\ loads' = loads]_vars

C5_Witness ==
    IsPredictResp /\ resp.status = 500 /\ model # NoModel /\ loads = 1

\* C6: with the model loaded, a request without a 'file' part is answered
\* 400, one with an empty filename is answered 400 with another error text,
\* and neither reads the upload nor calls the model.
C6_Validation ==
    (IsPredictResp /\ model # NoModel) =>
        /\ ~HasFile =>
              /\ resp.status = 400
              /\ resp.body = [error |-> ERR_NO_FILE]
              /\ trace.calls = <<>>
        /\ (HasFile /\ req.files["file"].filename = "") =>
              /\ resp.status = 400
              /\ resp.body = [error |-> ERR_NO_NAME]
              /\ resp.body # [error |-> ERR_NO_FILE]
              /\ trace.calls = <<>>

C6_Witness ==
    IsPredictResp /\ model # NoModel /\ HasFile /\ resp.status = 400
        /\ req.files["file"].data.kind = "image"

\* C7: with the model loaded and a named file part, an exception raised in
\* the try block gives a 500 answer whose body is only the exception's text,
\* and leaves the server state as it was.
C7_ExceptionCaught ==
    [][(/\ resp'.route = "/predict"
        /\ model # NoModel
        /\ "file" \in DOMAIN req'.files
        /\ req'.files["file"].filename # ""
        /\ \/ trace'.raised # <<>>
           \/ req'.fault # "none"
           \/ req'.files["file"].data.kind # "image")
       => /\ trace'.raised # <<>>
          /\ resp'.status = 500
          /\ resp'.body = [error |-> trace'.raised[1].msg]
          /\ model' = model /\ input_shape' = input_shape
          /\ loads' = loads /\ pc' = pc]_vars

C7_Witness ==
    /\ IsPredictResp /\ resp.status = 500 /\ model # NoModel
    /\ trace.raised # <<>> /\ trace.raised[1].type = "UnidentifiedImageError"
    /\ resp.body = [error |-> "cannot identify image file"]

\* C8: a POST /predict answer is either 200 with prediction and confidence
\* and no error, or 400/500 with error alone; 200 needs the model loaded, a
\* named file part, and exactly one call of model.predict.
C8_ResponseShapes ==
    IsPredictResp =>
        /\ \/ resp.status = 200 /\ DOMAIN resp.body = {"prediction", "confidence"}
           \/ resp.status \in {400, 500} /\ DOMAIN resp.body = {"error"}
        /\ resp.status = 200 =>
              /\ model # NoModel
              /\ HasFile
              /\ req.files["file"].filename # ""
              /\ Cardinality({i \in DOMAIN trace.calls : trace.calls[i] = "predict"}) = 1

C8_Witness ==
    IsPredictResp /\ resp.status = 200 /\ resp.body.prediction = DOG
        /\ trace.calls[8] = "predict"

\* C9: input_shape is the declared (height, width) or the default, and the
\* array given to model.predict has shape (1, height, width, 3) for it, also
\* when height and width differ.
C9_ShapeFed ==
    /\ (pc = "serving" /\ model # NoModel /\ model.input_shape[2] # NoneDim) =>
          input_shape = <<model.input_shape[2], model.input_shape[3]>>
    /\ (pc = "serving" /\ (model = NoModel \/ model.input_shape[2] = NoneDim)) =>
          input_shape = <<DefaultSize, DefaultSize>>
    /\ trace.fed # <<>> =>
          trace.fed = <<1, input_shape[1], input_shape[2], Channels>>

\* C10: however the handlers interleave, a finished request holds the answer
\* it would get alone against the same model.
C10_Isolation ==
    \A t \in Threads :
        threads[t].pc = "done" =>
            IF threads[t].route = "/"
            THEN threads[t].out = [status |-> 200, body |-> StaticPage]
            ELSE LET alone == predict(model, input_shape, threads[t].r)
                 IN  threads[t].out = [status |-> alone.status, body |-> alone.body]

C10_Witness ==
    /\ threads[1].pc = "done" /\ threads[1].route = "/predict"
    /\ threads[1].out.status = 200
    /\ threads[1].out.body.prediction = DOG
    /\ threads[2].pc = "l130" /\ threads[2].score = <<0>>

====
